---- MODULE Spec2Model ----
(***************************************************************************)
(* Model of the Brotli4j encoder JNI glue (encoder_jni.cc): the            *)
(* EncoderHandle, its scratch input window, its dictionary registry and    *)
(* the native operations Create / Push / Pull / Destroy / Attach /         *)
(* PrepareDictionary / DestroyDictionary.  The brotli engine itself is an  *)
(* external library; it is modelled by its stream contract (copy input     *)
(* into a block, encode when the held output is empty, hand the held       *)
(* output out on request).                                                 *)
(***************************************************************************)
EXTENDS Integers, Sequences, FiniteSets, TLC

(* ------------------------------ bounds -------------------------------- *)
\* largest scratch capacity a caller asks for
MaxCap == 2
\* byte values are 1..MaxByte
MaxByte == 2
\* input block of the engine (bytes it buffers before it must encode)
BlockSize == 1
\* most bytes a handle is handed over its life (caps the histories)
MaxFeed == 3
\* in the dictionary specification only dictionary 1 is attached to a handle
\* that already holds this many references
MaxMixed == 1
\* references a handle holds at most where two handles run side by side
MaxShared == 1

(* --------------------------- program constants ------------------------ *)
\* jobject dictionary_refs[15]
DictCapacity == 15

Handles == {1, 2}
Dicts == {1, 2}
Bytes == 1..MaxByte
\* a jobject argument: null, the direct buffer that wraps prepared dictionary
\* d, or some ByteBuffer that is not direct
NoDict == 0
HeapBuffer == Cardinality(Dicts) + 1
Objects == Dicts \cup {HeapBuffer}
\* longest input_length a caller passes: one more than any capacity
MaxLen == MaxCap + 1

VARIABLES
  heap,             \* live native allocations: <<h, "handle" | "input" | "state">>
  input_start,      \* h -> the scratch array (<<>> is nullptr)
  input_offset,     \* h -> size_t
  input_last,       \* h -> size_t
  state,            \* h -> the BrotliEncoderState (NoEngine is nullptr)
  dictionary_refs,  \* h -> [1..15 -> Dicts \cup {NoDict}]
  dictionary_count, \* h -> size_t
  ctx,              \* h -> the caller's jlong context array, slots 0..4
  view,             \* h -> TRUE when the caller holds the scratch ByteBuffer
  ret,              \* what the last native call returned
  global_refs,      \* o -> number of JNI global references to object o
  dict_state,       \* d -> "Unprepared" | "Prepared" | "Destroyed"
  dict_size,        \* d -> size handed to BrotliEncoderPrepareDictionary
  sink,             \* h -> caller: its concatenation of the Pull outputs
  source,           \* h -> caller: bytes it still has to supply
  original,         \* h -> caller: its whole input
  written,          \* h -> caller: bytes written to the scratch buffer, not yet pushed
  fed,              \* h -> caller: bytes handed to the engine so far
  told,             \* h -> hasRemainingInput as last reported and still good (-1: none)
  pushed,           \* h -> hasRemainingInput of the last successful Push (-1: none)
  supplied,         \* h -> the chunks handed over with Push, concatenated
  consumed,         \* h -> the bytes the engine took from its input, concatenated
  acquired          \* h -> the objects NewGlobalRef retained for h, in call order

vars == <<heap, input_start, input_offset, input_last, state, dictionary_refs,
          dictionary_count, ctx, view, ret, global_refs, dict_state, dict_size,
          sink, source, original, written, fed, told, pushed, supplied,
          consumed, acquired>>

handle_vars == <<heap, input_start, input_offset, input_last, state,
                 dictionary_refs, dictionary_count>>
dict_vars == <<global_refs, dict_state, dict_size>>
stream_vars == <<sink, source, original, written>>
hist_vars == <<told, pushed, supplied, consumed, acquired>>
caller_vars == <<stream_vars, fed, hist_vars>>

Min(a, b) == IF a < b THEN a ELSE b

(* ------------------------------ the engine ---------------------------- *)
\* operation tags of BrotliEncoderOperation
BROTLI_OPERATION_PROCESS == 0
BROTLI_OPERATION_FLUSH == 1
BROTLI_OPERATION_FINISH == 2

\* tokens of the compressed stream
EndOfStream == 0
Padding == 100
EncShift == 10

NoEngine == [stream |-> "null", ring |-> <<>>, out |-> <<>>, dicts |-> <<>>,
             quality |-> 0, lgwin |-> 0, mode |-> 0]

\* BrotliEncoderCreateInstance: defaults quality 11, lgwin 22, mode generic
BrotliEncoderCreateInstance ==
  [stream |-> "PROCESSING", ring |-> <<>>, out |-> <<>>, dicts |-> <<>>,
   quality |-> 11, lgwin |-> 22, mode |-> 0]

\* BrotliEncoderSetParameter, applied only for a non-negative value
SetParameter(e, name, value) ==
  IF value >= 0 THEN [e EXCEPT ![name] = value] ELSE e

EncodeByte(b) == b + EncShift

\* one meta-block: the buffered bytes, a padding after a flush that had
\* bytes to flush, the end marker when the block is the last one
EncodeData(ring, is_last, force_flush) ==
  [i \in 1..Len(ring) |-> EncodeByte(ring[i])]
    \o (IF force_flush /\ ring # <<>> THEN <<Padding>> ELSE <<>>)
    \o (IF is_last THEN <<EndOfStream>> ELSE <<>>)

CheckFlushComplete(e) ==
  IF e.stream = "FLUSH_REQUESTED" /\ e.out = <<>>
  THEN [e EXCEPT !.stream = "PROCESSING"] ELSE e

\* the loop of BrotliEncoderCompressStream called with no output space:
\* in is the unread input; result is [ok, e, in]
RECURSIVE CompressLoop(_, _, _, _)
CompressLoop(e, op, in, encOk) ==
  LET remaining_block_size == BlockSize - Len(e.ring)
  IN IF remaining_block_size # 0 /\ in # <<>>
     THEN LET k == Min(remaining_block_size, Len(in))
          IN CompressLoop([e EXCEPT !.ring = @ \o SubSeq(in, 1, k)], op,
                          SubSeq(in, k + 1, Len(in)), encOk)
     ELSE IF /\ e.out = <<>>
             /\ e.stream = "PROCESSING"
             /\ (remaining_block_size = 0 \/ op # BROTLI_OPERATION_PROCESS)
     THEN IF ~encOk
          THEN [ok |-> FALSE, e |-> e, in |-> in]
          ELSE LET is_last == in = <<>> /\ op = BROTLI_OPERATION_FINISH
                   force_flush == in = <<>> /\ op = BROTLI_OPERATION_FLUSH
                   e2 == [e EXCEPT
                            !.out = EncodeData(e.ring, is_last, force_flush),
                            !.ring = <<>>,
                            !.stream = IF is_last THEN "FINISHED"
                                       ELSE IF force_flush THEN "FLUSH_REQUESTED"
                                       ELSE @]
               IN CompressLoop(e2, op, in, encOk)
     ELSE [ok |-> TRUE, e |-> CheckFlushComplete(e), in |-> in]

\* BrotliEncoderCompressStream(state, op, &in_size, &in, &out_size = 0, ...)
BrotliEncoderCompressStream(e, op, in, encOk) ==
  IF e.stream # "PROCESSING" /\ in # <<>>
  THEN [ok |-> FALSE, e |-> e, in |-> in]
  ELSE CompressLoop(e, op, in, encOk)

BrotliEncoderHasMoreOutput(e) == e.out # <<>>

BrotliEncoderIsFinished(e) ==
  e.stream = "FINISHED" /\ ~BrotliEncoderHasMoreOutput(e)

\* BrotliEncoderTakeOutput(state, &size): size 0 asks for all held output
BrotliEncoderTakeOutput(e, size) ==
  LET consumed_size == IF size # 0 THEN Min(size, Len(e.out)) ELSE Len(e.out)
  IN IF consumed_size # 0
     THEN [data |-> SubSeq(e.out, 1, consumed_size),
           e |-> CheckFlushComplete(
                   [e EXCEPT !.out = SubSeq(@, consumed_size + 1, Len(@))])]
     ELSE [data |-> <<>>, e |-> e]

\* BrotliEncoderAttachPreparedDictionary: the engine takes or refuses it
BrotliEncoderAttachPreparedDictionary(e, d, accept) ==
  IF accept THEN [e EXCEPT !.dicts = Append(@, d)] ELSE e

\* the reference decoder: tokens back to bytes; a stream is complete when
\* it ends with exactly one end marker, which is its last token
RECURSIVE DecodeTokens(_)
DecodeTokens(s) ==
  IF s = <<>> THEN <<>>
  ELSE IF Head(s) = Padding THEN DecodeTokens(Tail(s))
  ELSE <<Head(s) - EncShift>> \o DecodeTokens(Tail(s))

StreamComplete(s) ==
  /\ s # <<>>
  /\ s[Len(s)] = EndOfStream
  /\ \A i \in 1..(Len(s) - 1) : s[i] # EndOfStream

Decode(s) == DecodeTokens(SubSeq(s, 1, Len(s) - 1))

(* ------------------------------ the handle ---------------------------- *)
\* the handle object of h is allocated
Live(h) == <<h, "handle">> \in heap

\* every cookie resolves to one static handle
getHandle_static(opaque_handle) == 1

\* static EncoderHandle* getHandle(void* opaque_handle): the cookie is the
\* address of the handle
getHandle(opaque_handle) == opaque_handle

NoRefs == [i \in 1..DictCapacity |-> NoDict]

NoCtx == [i \in 0..4 |-> 0]

\* call: the operation; h: the handle or dictionary it was made on; op, len:
\* the operation tag or dictionary and the length it was given (for Create,
\* Pull and Prepare len is the size of the view or block passed on); ok: its
\* result; invoked: whether it called the engine; why: the branch it left by;
\* again: a Pull that follows a Pull on the same handle; released: what a
\* Destroy released, in the order it did
NoRet == [call |-> "none", h |-> 0, op |-> 0, len |-> 0, ok |-> FALSE,
          invoked |-> FALSE, why |-> "", again |-> FALSE, released |-> <<>>]

ProgramInit ==
  /\ heap = {}
  /\ input_start = [h \in Handles |-> <<>>]
  /\ input_offset = [h \in Handles |-> 0]
  /\ input_last = [h \in Handles |-> 0]
  /\ state = [h \in Handles |-> NoEngine]
  /\ dictionary_refs = [h \in Handles |-> NoRefs]
  /\ dictionary_count = [h \in Handles |-> 0]
  /\ ctx = [h \in Handles |-> NoCtx]
  /\ view = [h \in Handles |-> FALSE]
  /\ ret = NoRet
  /\ global_refs = [o \in Objects |-> 0]
  /\ dict_state = [d \in Dicts |-> "Unprepared"]
  /\ dict_size = [d \in Dicts |-> 0]

HistInit ==
  /\ told = [h \in Handles |-> -1]
  /\ pushed = [h \in Handles |-> -1]
  /\ supplied = [h \in Handles |-> <<>>]
  /\ consumed = [h \in Handles |-> <<>>]
  /\ acquired = [h \in Handles |-> <<>>]

Init ==
  /\ ProgramInit
  /\ HistInit
  /\ sink = [h \in Handles |-> <<>>]
  /\ source = [h \in Handles |-> <<>>]
  /\ original = [h \in Handles |-> <<>>]
  /\ written = [h \in Handles |-> 0]
  /\ fed = [h \in Handles |-> 0]

(* ------------------------------- Create ------------------------------- *)
\* nativeCreate.  The four ...Ok inputs are the outcomes of new EncoderHandle,
\* new uint8_t[input_size], BrotliEncoderCreateInstance and
\* NewDirectByteBuffer; fill is the indeterminate content of the new array.
Create(h, input_size, quality, lgwin, mode, handleOk, inputOk, stateOk, viewOk, fill) ==
  /\ ~Live(h)
  /\ LET ok1 == handleOk
         hasInput == ok1 /\ input_size # 0 /\ inputOk
         ok2 == hasInput
         hasState == ok2 /\ stateOk
         ok == hasState
         engine == SetParameter(SetParameter(SetParameter(
                     BrotliEncoderCreateInstance, "quality", quality),
                     "lgwin", lgwin), "mode", mode)
         allocated == (IF ok1 THEN {<<h, "handle">>} ELSE {})
                        \cup (IF hasInput THEN {<<h, "input">>} ELSE {})
                        \cup (IF hasState THEN {<<h, "state">>} ELSE {})
         \* else-branch of "if (ok)": delete[] input_start, delete handle
         released == IF ~ok /\ ok1
                     THEN (IF hasInput THEN {<<h, "input">>} ELSE {})
                            \cup {<<h, "handle">>}
                     ELSE {}
     IN /\ heap' = (heap \cup allocated) \ released
        /\ input_start' = [input_start EXCEPT ![h] = IF ok THEN fill ELSE <<>>]
        /\ input_offset' = [input_offset EXCEPT ![h] = 0]
        /\ input_last' = [input_last EXCEPT ![h] = 0]
        /\ state' = [state EXCEPT ![h] = IF ok THEN engine ELSE NoEngine]
        /\ dictionary_refs' = [dictionary_refs EXCEPT ![h] = NoRefs]
        /\ dictionary_count' = [dictionary_count EXCEPT ![h] = 0]
        /\ ctx' = [ctx EXCEPT ![h] = [NoCtx EXCEPT ![0] = IF ok THEN h ELSE 0,
                                                   ![1] = input_size,
                                                   ![2] = quality,
                                                   ![3] = lgwin,
                                                   ![4] = mode]]
        /\ view' = [view EXCEPT ![h] = ok /\ viewOk]
        /\ ret' = [NoRet EXCEPT !.call = "Create", !.h = h,
                                !.ok = ok /\ viewOk,
                                !.len = IF ok /\ viewOk THEN input_size ELSE 0]
        /\ UNCHANGED dict_vars

\* the caller writes n bytes at the start of the scratch buffer through the
\* view it got from Create
Fill(h, data) ==
  /\ Live(h)
  /\ view[h]
  /\ Len(data) <= Len(input_start[h])
  /\ input_start' = [input_start EXCEPT ![h] =
        [i \in 1..Len(@) |-> IF i <= Len(data) THEN data[i] ELSE @[i]]]
  /\ ret' = [NoRet EXCEPT !.call = "Fill", !.h = h]
  /\ UNCHANGED <<heap, input_offset, input_last, state, dictionary_refs,
                 dictionary_count, ctx, view, dict_vars>>

(* -------------------------------- Push -------------------------------- *)
\* a switch that lets tag 3 through
OpValid_lenient(operation) == operation \in 0..3

\* switch (operation): one of the three tags, else return
OpValid(operation) ==
  operation \in {BROTLI_OPERATION_PROCESS, BROTLI_OPERATION_FLUSH,
                 BROTLI_OPERATION_FINISH}

\* the slot left as the caller passed it
PushClearSuccess_skipped(c) == c

\* context[1] = 0;  /* ERROR */  then written back
PushClearSuccess(c) == [c EXCEPT ![1] = 0]

\* no check for unconsumed data
PushPending_never(h) == FALSE

\* new input refused whatever the window
PushPending_always(h) == TRUE

\* "Still have unconsumed data. Workflow is broken."
PushPending(h) == input_offset[h] < input_last[h]

\* the window never moves on
PushAdvance_rewind(last, in_size) == 0

\* the window taken as consumed whatever the engine left
PushAdvance_all(last, in_size) == last

\* handle->input_offset = handle->input_last - in_size
PushAdvance(last, in_size) == last - in_size

\* a window that always starts at the first byte of the array
Window_fromStart(buf, offset, last, junk) ==
  [i \in 1..(last - offset) |-> IF i <= Len(buf) THEN buf[i] ELSE junk[i]]

\* the bytes at [offset, last) of the scratch array; a position past the
\* array reads whatever lies behind it (junk)
Window(buf, offset, last, junk) ==
  [i \in 1..(last - offset) |->
     IF offset + i <= Len(buf) THEN buf[offset + i] ELSE junk[offset + i]]

\* const uint8_t* in = input_start + input_offset, in_size = input_last -
\* input_offset, after the window was reset for new input: the bytes that
\* Push on h with this input_length hands to the engine
PushIn(h, input_length, junk) ==
  LET p == getHandle(ctx[h][0])
      offset == IF input_length # 0 THEN 0 ELSE input_offset[p]
      last == IF input_length # 0 THEN input_length ELSE input_last[p]
  IN Window(input_start[p], offset, last, junk)

\* the status slots written whatever the engine returned
PushReports_always(status) == TRUE

\* if (!!status) { context[1] = 1; ... }
PushReports(status) == status

\* nativePush(ctx, input_length) with ctx[1] = operation; encOk is whether the
\* engine's encoding step works
Push(h, operation, input_length, encOk, junk) ==
  /\ Live(h)
  /\ LET p == getHandle(ctx[h][0])
         c0 == [ctx[h] EXCEPT ![1] = operation]
         c1 == PushClearSuccess(c0)
         r0 == [NoRet EXCEPT !.call = "Push", !.h = h,
                             !.op = operation, !.len = input_length]
     IN IF ~OpValid(operation) \/ (input_length # 0 /\ PushPending(p))
        THEN /\ ctx' = [ctx EXCEPT ![h] = c1]
             /\ ret' = [r0 EXCEPT !.why = IF ~OpValid(operation) THEN "tag"
                                          ELSE "pending"]
             /\ UNCHANGED handle_vars
        ELSE LET offset == IF input_length # 0 THEN 0 ELSE input_offset[p]
                 last == IF input_length # 0 THEN input_length ELSE input_last[p]
                 in == PushIn(h, input_length, junk)
                 r == BrotliEncoderCompressStream(state[p], operation, in, encOk)
                 in_size == Len(r.in)
                 new_offset == PushAdvance(last, in_size)
                 c2 == IF PushReports(r.ok)
                       THEN [c1 EXCEPT
                               ![1] = 1,
                               ![2] = IF BrotliEncoderHasMoreOutput(r.e) THEN 1 ELSE 0,
                               ![3] = IF new_offset # last THEN 1 ELSE 0,
                               ![4] = IF BrotliEncoderIsFinished(r.e) THEN 1 ELSE 0]
                       ELSE c1
             IN /\ input_offset' = [input_offset EXCEPT ![p] = new_offset]
                /\ input_last' = [input_last EXCEPT ![p] = last]
                /\ state' = [state EXCEPT ![p] = r.e]
                /\ ctx' = [ctx EXCEPT ![h] = c2]
                /\ ret' = [r0 EXCEPT !.invoked = TRUE, !.ok = r.ok,
                                      !.why = IF r.ok THEN "ok" ELSE "engine"]
                /\ UNCHANGED <<heap, input_start, dictionary_refs, dictionary_count>>
  /\ UNCHANGED <<view, dict_vars>>

(* -------------------------------- Pull -------------------------------- *)
\* a Pull that asks for one byte at most
PullDataLength_one(h) == 1

\* size_t data_length = 0;
PullDataLength(h) == 0

\* a Pull that leaves the hasRemainingInput slot as it finds it
PullResult_stale(h) ==
  LET p == getHandle(ctx[h][0])
      t == BrotliEncoderTakeOutput(state[p], PullDataLength(h))
  IN [data |-> t.data,
      e |-> t.e,
      c |-> [ctx[h] EXCEPT
               ![1] = 1,
               ![2] = IF BrotliEncoderHasMoreOutput(t.e) THEN 1 ELSE 0,
               ![4] = IF BrotliEncoderIsFinished(t.e) THEN 1 ELSE 0]]

\* a Pull that hands the held output out and leaves it with the engine
PullResult_peek(h) ==
  LET p == getHandle(ctx[h][0])
  IN [data |-> state[p].out,
      e |-> state[p],
      c |-> [ctx[h] EXCEPT
               ![1] = 1,
               ![2] = IF BrotliEncoderHasMoreOutput(state[p]) THEN 1 ELSE 0,
               ![3] = IF input_offset[p] # input_last[p] THEN 1 ELSE 0,
               ![4] = IF BrotliEncoderIsFinished(state[p]) THEN 1 ELSE 0]]

\* what nativePull computes on handle h: the output taken, the engine after
\* it, and the context array it writes back
PullResult(h) ==
  LET p == getHandle(ctx[h][0])
      t == BrotliEncoderTakeOutput(state[p], PullDataLength(h))
  IN [data |-> t.data,
      e |-> t.e,
      c |-> [ctx[h] EXCEPT
               ![1] = 1,
               ![2] = IF BrotliEncoderHasMoreOutput(t.e) THEN 1 ELSE 0,
               ![3] = IF input_offset[p] # input_last[p] THEN 1 ELSE 0,
               ![4] = IF BrotliEncoderIsFinished(t.e) THEN 1 ELSE 0]]

Pull(h) ==
  /\ Live(h)
  /\ LET r == PullResult(h)
     IN /\ state' = [state EXCEPT ![getHandle(ctx[h][0])] = r.e]
        /\ ctx' = [ctx EXCEPT ![h] = r.c]
        /\ ret' = [NoRet EXCEPT !.call = "Pull", !.h = h, !.ok = TRUE,
                                !.again = (ret.call = "Pull" /\ ret.h = h),
                                !.invoked = TRUE, !.len = Len(r.data)]
  /\ UNCHANGED <<heap, input_start, input_offset, input_last, dictionary_refs,
                 dictionary_count, view, dict_vars>>

(* ------------------------------- Destroy ------------------------------ *)
\* what Destroy does to the prepared dictionaries its references point at,
\* if deleting a reference destroyed the dictionary
DestroyDictState_owning(h) ==
  [d \in Dicts |->
     IF \E i \in 1..dictionary_count[h] : dictionary_refs[h][i] = d
     THEN "Destroyed" ELSE dict_state[d]]

\* DeleteGlobalRef drops a reference to the wrapper object; no call of
\* nativeDestroy reaches BrotliEncoderDestroyPreparedDictionary
DestroyDictState(h) == dict_state

\* a loop that starts at the second entry
DestroyTrace_skipFirst(h) ==
  <<[kind |-> "state", o |-> NoDict]>>
    \o [i \in 1..(IF dictionary_count[h] = 0 THEN 0 ELSE dictionary_count[h] - 1) |->
         [kind |-> "ref", o |-> dictionary_refs[h][i + 1]]]
    \o <<[kind |-> "input", o |-> NoDict], [kind |-> "handle", o |-> NoDict]>>

\* the releases of nativeDestroy in program order: the engine, the
\* references 0 .. dictionary_count - 1, the scratch array, the handle
DestroyTrace(h) ==
  <<[kind |-> "state", o |-> NoDict]>>
    \o [i \in 1..dictionary_count[h] |->
         [kind |-> "ref", o |-> dictionary_refs[h][i]]]
    \o <<[kind |-> "input", o |-> NoDict], [kind |-> "handle", o |-> NoDict]>>

\* number of releases of reference o (kind "ref") or of a block in trace t
Released(t, kind, o) ==
  Cardinality({i \in 1..Len(t) : t[i].kind = kind /\ t[i].o = o})

\* nativeDestroy: engine, the counted references, the scratch array, the handle
Destroy(h) ==
  /\ Live(h)
  /\ LET p == getHandle(ctx[h][0])
         t == DestroyTrace(p)
     IN /\ heap' = heap \ {<<p, k>> : k \in {t[i].kind : i \in 1..Len(t)}}
        /\ global_refs' = [o \in Objects |->
              global_refs[o] - Released(t, "ref", o)]
        /\ dict_state' = DestroyDictState(p)
        /\ input_start' = [input_start EXCEPT ![p] = <<>>]
        /\ input_offset' = [input_offset EXCEPT ![p] = 0]
        /\ input_last' = [input_last EXCEPT ![p] = 0]
        /\ state' = [state EXCEPT ![p] = NoEngine]
        /\ dictionary_refs' = [dictionary_refs EXCEPT ![p] = NoRefs]
        /\ dictionary_count' = [dictionary_count EXCEPT ![p] = 0]
        /\ view' = [view EXCEPT ![h] = FALSE]
        /\ ret' = [NoRet EXCEPT !.call = "Destroy", !.h = h, !.released = t]
  /\ UNCHANGED <<ctx, dict_size>>

(* -------------------------------- Attach ------------------------------ *)
\* the capacity test off by one
AttachFull_late(h) == dictionary_count[h] > DictCapacity

\* handle->dictionary_count >= 15
AttachFull(h) == dictionary_count[h] >= DictCapacity

\* GetDirectBufferAddress: null for a buffer that is not direct
HasAddress(o) == o \in Dicts

\* nativeAttachDictionary(ctx, dictionary); refOk is whether NewGlobalRef
\* yields a reference, accept whether the engine takes the dictionary
Attach(h, dictionary, refOk, accept) ==
  /\ Live(h)
  /\ dictionary \in Dicts => dict_state[dictionary] # "Unprepared"
  /\ LET p == getHandle(ctx[h][0])
         ok1 == dictionary # NoDict
         ok2 == ok1 /\ ~AttachFull(p)
         ok3 == ok2 /\ refOk
         ok4 == ok3 /\ HasAddress(dictionary)
         ok == ok4 /\ accept
     IN /\ global_refs' = IF ok3 THEN [global_refs EXCEPT ![dictionary] = @ + 1]
                          ELSE global_refs
        /\ dictionary_refs' = IF ok3
              THEN [dictionary_refs EXCEPT ![p][dictionary_count[p] + 1] = dictionary]
              ELSE dictionary_refs
        /\ dictionary_count' = IF ok3
              THEN [dictionary_count EXCEPT ![p] = @ + 1]
              ELSE dictionary_count
        /\ state' = IF ok4
              THEN [state EXCEPT ![p] =
                      BrotliEncoderAttachPreparedDictionary(@, dictionary, accept)]
              ELSE state
        /\ ret' = [NoRet EXCEPT !.call = "Attach", !.h = h, !.ok = ok,
                                !.op = dictionary,
                                !.invoked = ok4,
                                !.why = IF ~ok1 THEN "null"
                                        ELSE IF ~ok2 THEN "full"
                                        ELSE IF ~ok3 THEN "ref"
                                        ELSE IF ~ok4 THEN "address"
                                        ELSE IF ~ok THEN "engine" ELSE "ok"]
  /\ UNCHANGED <<heap, input_start, input_offset, input_last, ctx, view,
                 dict_state, dict_size>>

(* --------------------------- PrepareDictionary ------------------------ *)
\* (1 << 30)
PrepareLimit == 2 ^ 30

\* the upper limit taken as inclusive
PrepareSizeBad_inclusive(capacity) == capacity <= 0 \/ capacity > PrepareLimit

\* (capacity <= 0) || (capacity >= (1 << 30))
PrepareSizeBad(capacity) == capacity <= 0 \/ capacity >= PrepareLimit

\* static_cast<size_t>(capacity): size_t holds every jlong in 1 .. 2^30 - 1
PrepareSize(capacity) == capacity

\* nativePrepareDictionary(dictionary, type) making dictionary object d;
\* present/direct describe the raw buffer, built is whether the engine
\* builds the compiled form
Prepare(d, present, direct, capacity, built) ==
  /\ dict_state[d] # "Prepared"
  /\ global_refs[d] = 0
  /\ LET checked == present /\ direct /\ ~PrepareSizeBad(capacity)
         size == PrepareSize(capacity)
         ok == checked /\ built
     IN /\ dict_state' = IF ok THEN [dict_state EXCEPT ![d] = "Prepared"]
                         ELSE dict_state
        /\ dict_size' = IF ok THEN [dict_size EXCEPT ![d] = size] ELSE dict_size
        /\ ret' = [NoRet EXCEPT !.call = "Prepare", !.h = d, !.ok = ok,
                                !.invoked = checked,
                                !.why = IF ~present THEN "null"
                                        ELSE IF ~direct THEN "address"
                                        ELSE IF ~checked THEN "size"
                                        ELSE IF ~ok THEN "engine" ELSE "ok",
                                !.len = IF checked THEN size ELSE capacity]
  /\ UNCHANGED <<handle_vars, ctx, view, global_refs>>

\* nativeDestroyDictionary(dictionary)
DestroyDictionary(dictionary) ==
  /\ dictionary \in Dicts => dict_state[dictionary] = "Prepared"
  /\ dict_state' = IF dictionary # NoDict /\ HasAddress(dictionary)
                   THEN [dict_state EXCEPT ![dictionary] = "Destroyed"]
                   ELSE dict_state
  /\ ret' = [NoRet EXCEPT !.call = "DestroyDictionary",
                          !.invoked = dictionary # NoDict /\ HasAddress(dictionary)]
  /\ UNCHANGED <<handle_vars, ctx, view, global_refs, dict_size>>

(* ---------------------------- specifications -------------------------- *)
\* values a caller passes for quality / lgwin / mode: default or explicit
Qualities == {-1, 11}
LgWins == {22}
Modes == {-1}
\* operation tags a caller passes: the three tags and an unknown one
Operations == {0, 1, 2, 3}
\* dictionary sizes around the two limits
Capacities == {-1, 0, 1, PrepareLimit - 1, PrepareLimit, PrepareLimit + 1}

SeqsUpTo(S, n) == UNION {[1..k -> S] : k \in 0..n}

\* B is the set of byte values the memory and the caller's data take
CreateAny(h, B) ==
  \E input_size \in 0..MaxCap, quality \in Qualities, lgwin \in LgWins,
     mode \in Modes, handleOk, inputOk, stateOk, viewOk \in BOOLEAN :
    \E fill \in [1..input_size -> B] :
      Create(h, input_size, quality, lgwin, mode, handleOk, inputOk, stateOk,
             viewOk, fill)

FillAny(h, B) == \E data \in SeqsUpTo(B, MaxCap) : data # <<>> /\ Fill(h, data)

\* what may lie behind the scratch array where the window [.., last) leaves it
Junk(h, input_length, B) ==
  [(Len(input_start[h]) + 1)..
     (IF input_length # 0 THEN input_length ELSE input_last[h]) -> B]

\* the caller counts the bytes of every Push that reached the engine with
\* new input, and stops handing over new input at MaxFeed
PushAny(h, B) ==
  \E operation \in Operations, input_length \in 0..MaxLen, encOk \in BOOLEAN :
    /\ input_length # 0 => fed[h] + input_length <= MaxFeed
    /\ \E junk \in Junk(h, input_length, B) :
         Push(h, operation, input_length, encOk, junk)
    /\ fed' = [fed EXCEPT ![h] = IF ret'.invoked THEN @ + input_length ELSE @]
    /\ UNCHANGED stream_vars

\* Create with one capacity and the default parameters, any allocation outcome
CreatePlain(h) ==
  \E handleOk, inputOk, stateOk, viewOk \in BOOLEAN :
    Create(h, 1, -1, -1, -1, handleOk, inputOk, stateOk, viewOk, <<1>>)

AttachAny(h) ==
  \E dictionary \in Objects \cup {NoDict}, refOk, accept \in BOOLEAN :
    /\ dictionary \notin {1, NoDict} => dictionary_count[h] < MaxMixed
    /\ Attach(h, dictionary, refOk, accept)

PrepareAny ==
  \E d \in Dicts, present, direct, built \in BOOLEAN, capacity \in Capacities :
    Prepare(d, present, direct, capacity, built)

\* Prepare of a one-byte raw dictionary
PrepareSmall ==
  \E d \in Dicts, present, direct, built \in BOOLEAN :
    Prepare(d, present, direct, 1, built)

DestroyDictionaryAny ==
  \E dictionary \in Objects \cup {NoDict} : DestroyDictionary(dictionary)

\* what the caller remembers of the hasRemainingInput reports.  told is the
\* last report of a successful Push or of a Pull; a Push that fails in the
\* engine makes it void, a Push that is refused leaves it.  pushed is the
\* last report of a successful Push.
Forget(h) ==
  /\ told' = [told EXCEPT ![h] = -1]
  /\ pushed' = [pushed EXCEPT ![h] = -1]

NotePush(h) ==
  /\ told' = [told EXCEPT ![h] = IF ret'.invoked /\ ret'.ok THEN ctx'[h][3]
                                 ELSE IF ret'.invoked THEN -1 ELSE @]
  /\ pushed' = [pushed EXCEPT ![h] = IF ret'.invoked /\ ret'.ok THEN ctx'[h][3]
                                     ELSE @]

NotePull(h) ==
  /\ told' = [told EXCEPT ![h] = ctx'[h][3]]
  /\ UNCHANGED pushed

\* one handle and its stream, driven by an arbitrary caller; no operation
\* looks at the value of a byte, so one byte value stands for all here
Next ==
  \/ CreateAny(1, {1}) /\ fed' = [fed EXCEPT ![1] = 0]
                       /\ Forget(1)
                       /\ UNCHANGED <<stream_vars, supplied, consumed, acquired>>
  \/ FillAny(1, {1}) /\ UNCHANGED caller_vars
  \/ PushAny(1, {1}) /\ NotePush(1)
                     /\ UNCHANGED <<supplied, consumed, acquired>>
  \/ Pull(1) /\ NotePull(1)
             /\ UNCHANGED <<stream_vars, fed, supplied, consumed, acquired>>
  \/ Destroy(1) /\ Forget(1)
                /\ UNCHANGED <<stream_vars, fed, supplied, consumed, acquired>>

Spec == Init /\ [][Next]_vars

\* the record of the global references the JVM handed out for h: an Attach
\* adds the object whose reference count it raised; a Create or Destroy
\* starts the record anew
NoteAttach(h) ==
  /\ LET got == {o \in Objects : global_refs'[o] > global_refs[o]}
     IN acquired' = [acquired EXCEPT ![h] =
          IF got = {} THEN @ ELSE Append(@, CHOOSE o \in got : TRUE)]
  /\ UNCHANGED <<stream_vars, fed, told, pushed, supplied, consumed>>

NoteNone(h) ==
  /\ acquired' = [acquired EXCEPT ![h] = <<>>]
  /\ UNCHANGED <<stream_vars, fed, told, pushed, supplied, consumed>>

\* one handle and the dictionaries, driven by an arbitrary caller
NextDict ==
  \/ CreatePlain(1) /\ NoteNone(1)
  \/ AttachAny(1) /\ NoteAttach(1)
  \/ Destroy(1) /\ NoteNone(1)
  \/ PrepareSmall /\ UNCHANGED caller_vars
  \/ DestroyDictionaryAny /\ UNCHANGED caller_vars

SpecDict == Init /\ [][NextDict]_vars

\* the dictionary objects alone: every size around the limits
NextPrepare ==
  \/ PrepareAny /\ UNCHANGED caller_vars
  \/ DestroyDictionaryAny /\ UNCHANGED caller_vars

SpecPrepare == Init /\ [][NextPrepare]_vars

(* ------------------------- two handles side by side ------------------- *)
\* memory behind a scratch array, should a window reach it
Beyond == [i \in 1..(MaxLen + 1) |-> 1]

\* Create with capacity 1; the engine is made or not
CreateTwo(h) ==
  \E stateOk \in BOOLEAN :
    Create(h, 1, -1, -1, -1, TRUE, TRUE, stateOk, TRUE, <<1>>)

PushTwo(h) ==
  \E input_length \in {0, 1} :
    Push(h, BROTLI_OPERATION_PROCESS, input_length, TRUE, Beyond)

\* both handles attach dictionary 1; the engine takes it or not
AttachShared(h) ==
  /\ dictionary_count[h] < MaxShared
  /\ \E accept \in BOOLEAN : Attach(h, 1, TRUE, accept)

PrepareOne == \E built \in BOOLEAN : Prepare(1, TRUE, TRUE, 1, built)

\* any interleaving of the calls on two handles, each call atomic: a call
\* reads and writes its own handle, its own context array and the reference
\* counts the JVM keeps under its own lock
NextTwo ==
  \/ \E h \in Handles : CreateTwo(h) /\ UNCHANGED caller_vars
  \/ \E h \in Handles : PushTwo(h) /\ UNCHANGED caller_vars
  \/ \E h \in Handles : Pull(h) /\ UNCHANGED caller_vars
  \/ \E h \in Handles : AttachShared(h) /\ UNCHANGED caller_vars
  \/ \E h \in Handles : Destroy(h) /\ UNCHANGED caller_vars
  \/ PrepareOne /\ UNCHANGED caller_vars
  \/ DestroyDictionary(1) /\ UNCHANGED caller_vars

SpecTwo == Init /\ [][NextTwo]_vars

(* ------------------- a caller that keeps to the buffer rule ----------- *)
\* two byte values tell a byte from its neighbour
FeedBytes == {1, 2}

\* the caller writes to the scratch buffer only while no input is pending;
\* it writes the whole buffer and hands over as much of it as it likes
FeedFill(h) ==
  /\ input_offset[h] = input_last[h]
  /\ ret.call # "Fill"
  /\ \E data \in [1..Len(input_start[h]) -> FeedBytes] :
       data # <<>> /\ Fill(h, data)

\* any Push of a chunk that lies in the scratch buffer.  supplied and consumed
\* are the record of the chunks handed over and of what the engine read:
\* consumed grows by the bytes BrotliEncoderCompressStream took off its input
FeedPush(h) ==
  \E operation \in {BROTLI_OPERATION_PROCESS, BROTLI_OPERATION_FLUSH,
                     BROTLI_OPERATION_FINISH},
     input_length \in 0..Len(input_start[h]), encOk \in BOOLEAN :
    /\ input_length # 0 => fed[h] + input_length <= MaxFeed
    /\ Push(h, operation, input_length, encOk, <<>>)
    /\ LET in == PushIn(h, input_length, <<>>)
           r == BrotliEncoderCompressStream(state[h], operation, in, encOk)
       IN /\ supplied' = [supplied EXCEPT ![h] =
                IF ret'.invoked /\ input_length # 0
                THEN @ \o SubSeq(input_start[h], 1, input_length) ELSE @]
          /\ consumed' = [consumed EXCEPT ![h] =
                IF ret'.invoked THEN @ \o SubSeq(in, 1, Len(in) - Len(r.in))
                ELSE @]
    /\ fed' = [fed EXCEPT ![h] = IF ret'.invoked THEN @ + input_length ELSE @]
    /\ UNCHANGED <<stream_vars, told, pushed, acquired>>

NextFeed ==
  \/ \E input_size \in 0..MaxCap, stateOk \in BOOLEAN :
       \E fill \in [1..input_size -> {1}] :
         Create(1, input_size, -1, -1, -1, TRUE, TRUE, stateOk, TRUE, fill)
     /\ UNCHANGED caller_vars
  \/ FeedFill(1) /\ UNCHANGED caller_vars
  \/ FeedPush(1)
  \/ Pull(1) /\ UNCHANGED caller_vars

SpecFeed == Init /\ [][NextFeed]_vars

(* ------------------------ the conformant caller ----------------------- *)
\* longest input of the conformant caller
MaxInput == 3

InitRT ==
  /\ ProgramInit
  /\ \E input \in SeqsUpTo(Bytes, MaxInput) :
       /\ original = [h \in Handles |-> IF h = 1 THEN input ELSE <<>>]
       /\ source = original
  /\ sink = [h \in Handles |-> <<>>]
  /\ written = [h \in Handles |-> 0]
  /\ fed = [h \in Handles |-> 0]
  /\ HistInit

\* the caller goes on only with a handle and a view, and stops at a failed Push
Usable(h) == Live(h) /\ view[h] /\ ~(ret.call = "Push" /\ ~ret.ok)

RTCreate(h) ==
  /\ ret.call = "none"
  /\ \E input_size \in 1..MaxCap, handleOk, inputOk, stateOk, viewOk \in BOOLEAN :
       \E fill \in [1..input_size -> Bytes] :
         Create(h, input_size, -1, -1, -1, handleOk, inputOk, stateOk, viewOk, fill)
  /\ UNCHANGED caller_vars

\* write the next chunk, legal only when the pending window is drained
RTFill(h) ==
  /\ Usable(h)
  /\ written[h] = 0
  /\ input_offset[h] = input_last[h]
  /\ source[h] # <<>>
  /\ \E n \in 1..Min(Len(input_start[h]), Len(source[h])) :
       /\ Fill(h, SubSeq(source[h], 1, n))
       /\ written' = [written EXCEPT ![h] = n]
  /\ UNCHANGED <<sink, source, original, fed, hist_vars>>

\* Push(Process, n) for the chunk just written
RTPushNew(h) ==
  /\ Usable(h)
  /\ written[h] # 0
  /\ \E encOk \in BOOLEAN :
       Push(h, BROTLI_OPERATION_PROCESS, written[h], encOk, <<>>)
  /\ source' = [source EXCEPT ![h] = SubSeq(@, written[h] + 1, Len(@))]
  /\ written' = [written EXCEPT ![h] = 0]
  /\ UNCHANGED <<sink, original, fed, hist_vars>>

\* Push(Process, 0)
RTPushMore(h) ==
  /\ Usable(h)
  /\ \E encOk \in BOOLEAN : Push(h, BROTLI_OPERATION_PROCESS, 0, encOk, <<>>)
  /\ UNCHANGED caller_vars

\* Push(Finish, 0), once everything has been supplied
RTFinish(h) ==
  /\ Usable(h)
  /\ source[h] = <<>>
  /\ written[h] = 0
  /\ \E encOk \in BOOLEAN : Push(h, BROTLI_OPERATION_FINISH, 0, encOk, <<>>)
  /\ UNCHANGED caller_vars

\* Pull, the output appended to what the caller has collected
RTPull(h) ==
  /\ Usable(h)
  /\ Pull(h)
  /\ sink' = [sink EXCEPT ![h] = @ \o PullResult(h).data]
  /\ UNCHANGED <<source, original, written, fed, hist_vars>>

NextRT ==
  \/ RTCreate(1)
  \/ RTFill(1)
  \/ RTPushNew(1)
  \/ RTPushMore(1)
  \/ RTFinish(1)
  \/ RTPull(1)

SpecRT == InitRT /\ [][NextRT]_vars

(* ---------------------------- the drain loop -------------------------- *)
\* longest input of the caller of the drain loop: long enough for a Push to
\* leave input unread behind a full block and held output
MaxDrain == 4

InitDrain ==
  /\ ProgramInit
  /\ \E input \in SeqsUpTo(FeedBytes, MaxDrain) :
       /\ original = [h \in Handles |-> IF h = 1 THEN input ELSE <<>>]
       /\ source = original
  /\ sink = [h \in Handles |-> <<>>]
  /\ written = [h \in Handles |-> 0]
  /\ fed = [h \in Handles |-> 0]
  /\ HistInit

\* the last call reported hasMoreOutput or hasRemainingInput
DrainFlags(h) ==
  /\ ret.call \in {"Push", "Pull"}
  /\ ctx[h][2] = 1 \/ ctx[h][3] = 1

\* the last call reported success and isFinished
DrainFinished(h) ==
  /\ ret.call \in {"Push", "Pull"}
  /\ ctx[h][1] = 1
  /\ ctx[h][4] = 1

\* Process while chunks are left to supply, Finish after the last one
DrainOp(h) ==
  IF source[h] = <<>> THEN BROTLI_OPERATION_FINISH ELSE BROTLI_OPERATION_PROCESS

DrainCreate(h) ==
  /\ ret.call = "none"
  /\ \E input_size \in 1..MaxCap, handleOk, inputOk, stateOk, viewOk \in BOOLEAN :
       \E fill \in [1..input_size -> {1}] :
         Create(h, input_size, -1, -1, -1, handleOk, inputOk, stateOk, viewOk, fill)
  /\ UNCHANGED caller_vars

\* nothing is reported pending: write the next chunk
DrainFill(h) ==
  /\ Usable(h)
  /\ ret.call \in {"Create", "Push", "Pull"}
  /\ ~DrainFlags(h)
  /\ source[h] # <<>>
  /\ \E n \in 1..Min(Len(input_start[h]), Len(source[h])) :
       /\ Fill(h, SubSeq(source[h], 1, n))
       /\ written' = [written EXCEPT ![h] = n]
  /\ UNCHANGED <<sink, source, original, fed, hist_vars>>

\* Push(Process, n) for the chunk just written
DrainPushNew(h) ==
  /\ Usable(h)
  /\ ret.call = "Fill"
  /\ Push(h, BROTLI_OPERATION_PROCESS, written[h], TRUE, <<>>)
  /\ source' = [source EXCEPT ![h] = SubSeq(@, written[h] + 1, Len(@))]
  /\ written' = [written EXCEPT ![h] = 0]
  /\ UNCHANGED <<sink, original, fed, hist_vars>>

\* a Push reported something pending: Pull
DrainPull(h) ==
  /\ Usable(h)
  /\ ret.call = "Push"
  /\ DrainFlags(h)
  /\ Pull(h)
  /\ UNCHANGED caller_vars

\* a Pull reported something pending: Push(op, 0)
DrainPushMore(h) ==
  /\ Usable(h)
  /\ ret.call = "Pull"
  /\ DrainFlags(h)
  /\ Push(h, DrainOp(h), 0, TRUE, <<>>)
  /\ UNCHANGED caller_vars

\* nothing is reported pending and the last chunk has been supplied:
\* Push(Finish, 0), unless the stream is reported finished
DrainFinish(h) ==
  /\ Usable(h)
  /\ ret.call \in {"Create", "Push", "Pull"}
  /\ ~DrainFlags(h)
  /\ ~DrainFinished(h)
  /\ source[h] = <<>>
  /\ Push(h, BROTLI_OPERATION_FINISH, 0, TRUE, <<>>)
  /\ UNCHANGED caller_vars

NextDrain ==
  \/ DrainCreate(1)
  \/ DrainFill(1)
  \/ DrainPushNew(1)
  \/ DrainPull(1)
  \/ DrainPushMore(1)
  \/ DrainFinish(1)

\* the caller's loop runs on while it has a step to take
SpecDrain == InitDrain /\ [][NextDrain]_vars /\ WF_vars(NextDrain)

(* ------------------------------ properties ---------------------------- *)
\* the three status booleans a Pull on h would report now
PullStatus(h) == <<PullResult(h).c[2], PullResult(h).c[3], PullResult(h).c[4]>>

\* the three status slots of the caller's context array
StatusSlots(h) == <<ctx[h][2], ctx[h][3], ctx[h][4]>>

\* C1: a Push with a valid tag and new input, made while input is pending,
\* reports failure, does not call the engine, leaves the window, the engine
\* and the registry as they were, and a Pull after it reports what a Pull
\* instead of it would have reported.
C1_PendingPushRejected ==
  [][( /\ ret'.call = "Push" /\ ret'.h = 1
       /\ OpValid(ret'.op)
       /\ ret'.len # 0
       /\ input_offset[1] # input_last[1] )
       => /\ ctx'[1][1] = 0
          /\ ~ret'.invoked
          /\ UNCHANGED <<input_offset, input_last, state, dictionary_refs,
                         dictionary_count>>
          /\ PullStatus(1)' = PullStatus(1)
          /\ PullResult(1)'.data = PullResult(1).data]_vars

\* a Push was rejected for pending input, and the input is still pending
C1_Witness ==
  /\ ret.call = "Push" /\ ret.op \in {0, 1, 2} /\ ret.len # 0
  /\ ctx[1][1] = 0 /\ ~ret.invoked
  /\ Live(1)
  /\ input_offset[1] # input_last[1]
  /\ state[1].out # <<>>

\* C2 (as claimed): the window of a live handle stays inside its scratch buffer
C2_WindowInsideScratch ==
  \A h \in Handles :
    (Live(h) /\ input_start[h] # <<>>)
      => /\ 0 <= input_offset[h]
         /\ input_offset[h] <= input_last[h]
         /\ input_last[h] <= Len(input_start[h])

\* C3: a Push with an unknown tag reports failure, does not call the engine
\* and changes nothing of the handle, for any length, pending input or not.
C3_UnknownTagRejected ==
  [][( /\ ret'.call = "Push" /\ ret'.h = 1
       /\ ret'.op \notin {0, 1, 2} )
       => /\ ctx'[1][1] = 0
          /\ ~ret'.invoked
          /\ UNCHANGED handle_vars]_vars

\* an unknown tag was rejected on a handle that has input pending
C3_Witness ==
  /\ ret.call = "Push" /\ ret.op = 3 /\ ret.len # 0
  /\ ctx[1][1] = 0
  /\ Live(1)
  /\ input_offset[1] # input_last[1]

\* C4 (as claimed): an Attach that returns false leaves the registry as it was
C4_FailedAttachChangesNothing ==
  [][(ret'.call = "Attach" /\ ret'.h = 1 /\ ~ret'.ok)
       => UNCHANGED <<dictionary_refs, dictionary_count>>]_vars

\* C5: a handle never holds more than 15 references; an Attach of a prepared
\* dictionary that is retained and accepted succeeds while fewer than 15 are
\* held; an Attach at 15 returns false, does not call the engine and leaves
\* the registry as it was.
C5_RegistryBounded ==
  [][ /\ dictionary_count'[1] <= 15
      /\ (ret'.call = "Attach" /\ ret'.h = 1) =>
         \A dictionary \in {ret'.op}, refOk, accept \in BOOLEAN :
           Attach(1, dictionary, refOk, accept)
             => /\ dictionary_count[1] = 15
                     => /\ ~ret'.ok
                        /\ ~ret'.invoked
                        /\ UNCHANGED <<dictionary_refs, dictionary_count, state>>
                /\ (dictionary_count[1] < 15 /\ dictionary \in Dicts
                       /\ refOk /\ accept)
                     => /\ ret'.ok
                        /\ dictionary_count'[1] = dictionary_count[1] + 1 ]_vars

\* fifteen attachments were accepted and a sixteenth was refused
C5_Witness ==
  /\ ret.call = "Attach" /\ ret.why = "full"
  /\ dictionary_count[1] = 15
  /\ Len(state[1].dicts) = 15

\* C6 (as claimed): after Create either the caller has a cookie, a view of
\* the requested size, the scratch buffer and the engine, or it has no cookie,
\* no view and nothing stays allocated.
C6_CreateAllOrNothing ==
  \A h \in Handles :
    (ret.call = "Create" /\ ret.h = h)
      => \/ /\ ctx[h][0] # 0
            /\ view[h]
            /\ ret.len = ctx[h][1]
            /\ ctx[h][1] > 0
            /\ Len(input_start[h]) = ctx[h][1]
            /\ {<<h, "handle">>, <<h, "input">>, <<h, "state">>} \subseteq heap
            /\ input_offset[h] = 0 /\ input_last[h] = 0
            /\ dictionary_count[h] = 0
         \/ /\ ctx[h][0] = 0
            /\ ~view[h]
            /\ \A k \in {"handle", "input", "state"} : <<h, k>> \notin heap

\* C7: Push reports success exactly when the tag is valid, no new input
\* comes on top of pending input, and the engine's step succeeds; the slot
\* holds 0 in every other case, whatever the caller left in the slots.
C7_PushSuccessExact ==
  [][(ret'.call = "Push" /\ ret'.h = 1)
       => LET legal == /\ ret'.op \in {0, 1, 2}
                       /\ ~(ret'.len # 0 /\ input_offset[1] # input_last[1])
          IN /\ ctx'[1][1] \in {0, 1}
             /\ ret'.invoked <=> legal
             /\ ctx'[1][1] = 1 <=> (legal /\ ret'.ok)]_vars

\* the engine's step failed on a Flush whose context array held stale ones
C7_Witness ==
  /\ ret.call = "Push" /\ ret.invoked /\ ~ret.ok
  /\ ret.op = 1
  /\ ctx[1][1] = 0
  /\ ctx[1][2] = 1

\* C8: a Pull made right after a Pull returns an empty view and reports the
\* same three status booleans.
C8_PullTwice ==
  [][(ret.call = "Pull" /\ ret.h = 1 /\ Pull(1))
       => /\ ret'.len = 0
          /\ StatusSlots(1)' = StatusSlots(1)]_vars

\* two Pulls in a row, the first of which had output to hand out
C8_Witness ==
  /\ ret.call = "Pull" /\ ret.again
  /\ ret.len = 0
  /\ ctx[1][4] = 1

\* the caller was told that the stream is finished
ReportedFinished(h) ==
  /\ Usable(h)
  /\ ret.call \in {"Push", "Pull"}
  /\ ctx[h][1] = 1
  /\ ctx[h][4] = 1

\* C9: when the conformant caller is told that the stream is finished, what
\* it has collected from Pull is a complete stream that decodes to its input.
C9_RoundTrip ==
  ReportedFinished(1)
    => /\ StreamComplete(sink[1])
       /\ Decode(sink[1]) = original[1]

\* a longest input, supplied in more than one chunk, came out finished
C9_Witness ==
  /\ ReportedFinished(1)
  /\ Len(original[1]) = MaxInput
  /\ Len(input_start[1]) < MaxInput
  /\ Decode(sink[1]) = original[1]

\* C10: Prepare returns a dictionary exactly when the raw buffer is there,
\* has an address, has a size in 1 .. 2^30 - 1 and the engine builds one; it
\* hands the engine the whole size, and does not call it otherwise.
C10_PrepareBounds ==
  [][ret'.call = "Prepare" =>
     \A d \in {ret'.h}, present, direct, built \in BOOLEAN, capacity \in {ret'.len} :
       Prepare(d, present, direct, capacity, built)
         => LET valid == present /\ direct /\ 1 <= capacity /\ capacity < 2 ^ 30
            IN /\ ret'.ok <=> (valid /\ built)
               /\ ret'.invoked <=> valid
               /\ valid => ret'.len = capacity
               /\ ret'.ok => /\ dict_state'[d] = "Prepared"
                              /\ dict_size'[d] = capacity
               /\ ~ret'.ok => UNCHANGED <<dict_state, dict_size>>]_vars

\* the largest legal size was prepared
C10_Witness ==
  /\ ret.call = "Prepare" /\ ret.ok
  /\ ret.len = 2 ^ 30 - 1
  /\ \E d \in Dicts : dict_state[d] = "Prepared" /\ dict_size[d] = 2 ^ 30 - 1

\* C11: Destroy of a handle leaves every dictionary in the state it was in,
\* so a dictionary the handle had attached stays Prepared, and every other
\* handle keeps its references, each still counted by the JVM and each to a
\* dictionary that is Prepared if it was.
C11_DestroyKeepsDictionaries ==
  [][ret'.call = "Destroy"
       => /\ dict_state' = dict_state
          /\ \A k \in Handles \ {ret'.h} :
               /\ dictionary_refs'[k] = dictionary_refs[k]
               /\ dictionary_count'[k] = dictionary_count[k]
               /\ state'[k].dicts = state[k].dicts
               /\ \A i \in 1..dictionary_count[k] :
                    LET d == dictionary_refs[k][i]
                    IN /\ global_refs'[d] >= 1
                       /\ (d \in Dicts /\ dict_state[d] = "Prepared")
                            => dict_state'[d] = "Prepared"]_vars

\* a handle that held dictionary 1 was destroyed while the other handle has
\* it attached; the dictionary is Prepared
C11_Witness ==
  /\ ret.call = "Destroy"
  /\ \E i \in 1..Len(ret.released) :
       ret.released[i] = [kind |-> "ref", o |-> 1]
  /\ \E k \in Handles \ {ret.h} :
       /\ Live(k)
       /\ dictionary_count[k] >= 1
       /\ dictionary_refs[k][1] = 1
       /\ state[k].dicts = <<1>>
  /\ dict_state[1] = "Prepared"
  /\ global_refs[1] >= 1

\* C12: a Create, Push, Pull, Attach or Destroy on one handle leaves the
\* window, the scratch array, the engine, the registry and the context array
\* of the other handle as they were.
C12_HandlesIndependent ==
  [][\A h \in Handles :
       (ret'.h = h /\ ret'.call \in {"Create", "Push", "Pull", "Attach", "Destroy"})
         => \A k \in Handles \ {h} :
              /\ input_offset'[k] = input_offset[k]
              /\ input_last'[k] = input_last[k]
              /\ input_start'[k] = input_start[k]
              /\ state'[k] = state[k]
              /\ dictionary_refs'[k] = dictionary_refs[k]
              /\ dictionary_count'[k] = dictionary_count[k]
              /\ ctx'[k] = ctx[k]
              /\ view'[k] = view[k]
              /\ Live(k)' = Live(k)]_vars

\* both handles have dictionary 1 attached, handle 2 has input pending and
\* output held, and a Push on handle 1 has just run the engine
C12_Witness ==
  /\ ret.call = "Push" /\ ret.h = 1 /\ ret.invoked
  /\ Live(1) /\ Live(2)
  /\ state[1].dicts = <<1>> /\ state[2].dicts = <<1>>
  /\ input_offset[2] # input_last[2]
  /\ state[2].out # <<>>
  /\ state[1] # state[2]

\* C13: a successful Push with new input n is made on a drained window and
\* sets the window to [0, n); every successful Push hands the engine the
\* bytes at [input_offset, input_limit) of the scratch buffer, leaves
\* input_limit where it was set, moves input_offset on by the number of
\* bytes the engine read, and reports hasRemainingInput as
\* input_offset # input_limit after that.
C13_PushWindow ==
  [][(ret'.call = "Push" /\ ret'.h = 1 /\ ret'.ok)
       => LET n == ret'.len
              offset == IF n # 0 THEN 0 ELSE input_offset[1]
              last == IF n # 0 THEN n ELSE input_last[1]
              window == SubSeq(input_start[1], offset + 1, last)
              took == Len(consumed'[1]) - Len(consumed[1])
          IN /\ n # 0 => input_offset[1] = input_last[1]
             /\ input_last'[1] = last
             /\ consumed'[1] = consumed[1] \o SubSeq(window, 1, took)
             /\ state'[1] =
                  BrotliEncoderCompressStream(state[1], ret'.op, window, TRUE).e
             /\ input_offset'[1] = offset + took
             /\ ctx'[1][1] = 1
             /\ ctx'[1][3] = IF input_offset'[1] # input_last'[1] THEN 1 ELSE 0]_vars

\* a successful Push of two new bytes of which the engine read one
C13_Witness ==
  /\ ret.call = "Push" /\ ret.ok /\ ret.len = 2
  /\ input_offset[1] = 1 /\ input_last[1] = 2
  /\ ctx[1][3] = 1
  /\ consumed[1] # <<>>

\* C18: what the engine has read is what the caller has supplied, byte for
\* byte and in order, up to the bytes still pending; the pending bytes are
\* still in the scratch buffer as they were supplied.
C18_ExactlyOnce ==
  Live(1)
    => LET s == supplied[1]
           c == consumed[1]
       IN /\ Len(c) <= Len(s)
          /\ c = SubSeq(s, 1, Len(c))
          /\ Len(s) - Len(c) = input_last[1] - input_offset[1]
          /\ SubSeq(s, Len(c) + 1, Len(s))
               = SubSeq(input_start[1], input_offset[1] + 1, input_last[1])

\* MaxFeed bytes, not all alike, were supplied in more than one chunk and
\* all of them have been read, the last by a Push without new input
C18_Witness ==
  /\ Live(1)
  /\ Len(supplied[1]) = MaxFeed
  /\ consumed[1] = supplied[1]
  /\ \E i, j \in 1..Len(supplied[1]) : supplied[1][i] # supplied[1][j]
  /\ Len(input_start[1]) < MaxFeed
  /\ ret.call = "Push" /\ ret.ok /\ ret.len = 0

\* what a Pull on handle 1 may and may not touch: it reports success, leaves
\* the window, the scratch array, the registry and the allocations alone,
\* changes of the engine only the held output (and the flush that ends with
\* it), and reports hasRemainingInput as input_offset # input_limit
PullFrame ==
  /\ ctx'[1][1] = 1
  /\ ret'.ok
  /\ UNCHANGED <<heap, input_start, input_offset, input_last, dictionary_refs,
                 dictionary_count, view, dict_vars>>
  /\ state'[1].ring = state[1].ring
  /\ state'[1].dicts = state[1].dicts
  /\ state'[1].out = <<>>
  /\ ctx'[1][3] = IF input_offset[1] # input_last[1] THEN 1 ELSE 0

C17_EngineFailureKeepsWindow ==
  [][(ret'.call = "Push" /\ ret'.h = 1 /\ ret'.invoked /\ ~ret'.ok)
       => LET n == ret'.len
              offset == IF n # 0 THEN 0 ELSE input_offset[1]
              last == IF n # 0 THEN n ELSE input_last[1]
              r == BrotliEncoderCompressStream(
                     state[1], ret'.op, [i \in 1..(last - offset) |-> 1], FALSE)
          IN /\ ~r.ok
             /\ ctx'[1][1] = 0
             /\ StatusSlots(1)' = StatusSlots(1)
             /\ input_last'[1] = last
             /\ input_offset'[1] = last - Len(r.in)
             /\ state'[1] = r.e]_vars

\* the engine failed on new input after it had read part of it, and the
\* slots still show the report of the call before
C17_Witness ==
  /\ ret.call = "Push" /\ ret.invoked /\ ~ret.ok
  /\ ret.len = 2
  /\ input_last[1] = 2 /\ input_offset[1] = 1
  /\ ctx[1][1] = 0
  /\ ctx[1][3] = 0

HeldRefs(h) == SubSeq(dictionary_refs[h], 1, dictionary_count[h])

\* how often object o occurs in sequence q
Occurrences(q, o) == Cardinality({i \in 1..Len(q) : q[i] = o})

\* C15: the references a live handle holds are the ones its Attach calls
\* acquired, in that order, whatever those calls returned, and the JVM counts
\* no others; Destroy releases the engine once and first, then each of those
\* references once and in that order, then the scratch array and the handle,
\* after which no reference is counted and nothing of the handle is allocated.
C15_ReferencesBalanced ==
  [][ /\ Live(1)' => /\ HeldRefs(1)' = acquired'[1]
                     /\ \A o \in Objects :
                          global_refs'[o] = Occurrences(acquired'[1], o)
      /\ (ret'.call = "Destroy" /\ ret'.h = 1)
           => LET t == ret'.released
                  n == Len(acquired[1])
              IN /\ Len(t) = n + 3
                 /\ t[1].kind = "state"
                 /\ \A i \in 1..n : t[i + 1] = [kind |-> "ref", o |-> acquired[1][i]]
                 /\ t[n + 2].kind = "input"
                 /\ t[n + 3].kind = "handle"
                 /\ \A o \in Objects : global_refs'[o] = 0
                 /\ \A k \in {"state", "input", "handle"} : <<1, k>> \notin heap' ]_vars

\* a handle was destroyed that held a reference from an Attach that had
\* returned false and, after it, references from Attach calls that had
\* returned true
C15_Witness ==
  /\ ret.call = "Destroy" /\ ret.h = 1
  /\ Len(ret.released) >= 6
  /\ ret.released[2] = [kind |-> "ref", o |-> HeapBuffer]
  /\ ret.released[3] = [kind |-> "ref", o |-> 1]
  /\ ret.released[4] = [kind |-> "ref", o |-> 1]
  /\ \A o \in Objects : global_refs[o] = 0

\* C16 (as claimed): the references a handle holds, read first to last, are
\* the dictionaries its engine accepted, in the order of the Attach calls
C16_RefsAreAcceptedDictionaries ==
  Live(1) => HeldRefs(1) = state[1].dicts

\* C20: once the caller of the drain loop has a handle and its view, it
\* comes to a report of success with isFinished = true at a drained window,
\* all of its input supplied.
C20_DrainTerminates ==
  (Live(1) /\ view[1])
    ~> (/\ DrainFinished(1)
        /\ input_offset[1] = input_last[1]
        /\ source[1] = <<>>)

\* a longest input went through a scratch buffer shorter than it and the
\* last Pull reported the stream finished
C20_Witness ==
  /\ DrainFinished(1)
  /\ ret.call = "Pull"
  /\ input_offset[1] = input_last[1]
  /\ source[1] = <<>>
  /\ Len(original[1]) = MaxDrain
  /\ Len(input_start[1]) < MaxDrain

====
